---- MODULE Spec2Model ----
(***************************************************************************)
(* Model of the LC3 assembler assembler.py: the line encoder               *)
(* (process_instruction), the fixup resolution loop and the emission of    *)
(* the .sym, .bin and .obj files.                                          *)
(*                                                                         *)
(* A token is a sequence of one-character strings; a source line is a      *)
(* record [words, text], words being the result of line.split() (after     *)
(* the comment cut and the comma spacing of the main loop) and text the    *)
(* string between the quotes of a .STRINGZ line.  Integer parsing follows  *)
(* Python 3.  The memory array is kept sparse: an index that is absent     *)
(* holds 0, and a word that becomes 0 is dropped from the map.             *)
(***************************************************************************)
EXTENDS Integers, Sequences, FiniteSets, TLC

\* ---------------------------------------------------------------- bounds
MaxLines == 2

\* ------------------------------------------------------------ characters
Digits == {"0", "1", "2", "3", "4", "5", "6", "7", "8", "9"}

UpperSeq == <<"A", "B", "C", "D", "E", "F", "G", "H", "I", "J", "K", "L", "M",
              "N", "O", "P", "Q", "R", "S", "T", "U", "V", "W", "X", "Y", "Z">>

LowerSeq == <<"a", "b", "c", "d", "e", "f", "g", "h", "i", "j", "k", "l", "m",
              "n", "o", "p", "q", "r", "s", "t", "u", "v", "w", "x", "y", "z">>

Range(f) == {f[i] : i \in DOMAIN f}

IsAlpha(c) == c \in Range(UpperSeq) \cup Range(LowerSeq)

IsDigit(c) == c \in Digits

ToLower(c) ==
    IF c \in Range(UpperSeq)
    THEN LowerSeq[CHOOSE i \in DOMAIN UpperSeq : UpperSeq[i] = c]
    ELSE c

\* printable ASCII, codes 32 .. 126
Ascii == <<" ", "!", "\"", "#", "$", "%", "&", "'", "(", ")", "*", "+", ",",
           "-", ".", "/", "0", "1", "2", "3", "4", "5", "6", "7", "8", "9",
           ":", ";", "<", "=", ">", "?", "@",
           "A", "B", "C", "D", "E", "F", "G", "H", "I", "J", "K", "L", "M",
           "N", "O", "P", "Q", "R", "S", "T", "U", "V", "W", "X", "Y", "Z",
           "[", "\\", "]", "^", "_", "(grave)",
           "a", "b", "c", "d", "e", "f", "g", "h", "i", "j", "k", "l", "m",
           "n", "o", "p", "q", "r", "s", "t", "u", "v", "w", "x", "y", "z",
           "{", "|", "}", "~">>

Ord(c) == 31 + (CHOOSE i \in DOMAIN Ascii : Ascii[i] = c)

HexSeq == <<"0", "1", "2", "3", "4", "5", "6", "7", "8", "9",
            "a", "b", "c", "d", "e", "f">>

HexDigits == Range(HexSeq) \cup {"A", "B", "C", "D", "E", "F"}

HexVal(c) == (CHOOSE i \in DOMAIN HexSeq : HexSeq[i] = ToLower(c)) - 1

StartsWith(w, p) == Len(w) >= Len(p) /\ SubSeq(w, 1, Len(p)) = p

Tail1(w) == SubSeq(w, 2, Len(w))

\* ------------------------------------------------------ bit operations
RECURSIVE BitOr(_, _)
BitOr(a, b) ==
    IF a = 0 THEN b
    ELSE IF b = 0 THEN a
    ELSE (IF a % 2 = 1 \/ b % 2 = 1 THEN 1 ELSE 0) + 2 * BitOr(a \div 2, b \div 2)

RECURSIVE Pow2(_)
Pow2(n) == IF n = 0 THEN 1 ELSE 2 * Pow2(n - 1)

\* Python's v & mask for a mask 2^k - 1 and any integer v
BitAndMask(v, mask) == v % (mask + 1)

\* --------------------------------------------------- integer literals
\* digits of a Python integer literal: single underscores between digits;
\* lead is TRUE where one underscore may open the digits (after 0x)
DigitString(s, ds, lead) ==
    /\ s # << >>
    /\ \A i \in DOMAIN s : s[i] \in ds \cup {"_"}
    /\ s[Len(s)] # "_"
    /\ (lead \/ s[1] # "_")
    /\ \A i \in 1 .. Len(s) - 1 : ~(s[i] = "_" /\ s[i + 1] = "_")

RECURSIVE DigitsValue(_, _)
DigitsValue(s, base) ==
    IF s = << >> THEN 0
    ELSE IF s[Len(s)] = "_" THEN DigitsValue(SubSeq(s, 1, Len(s) - 1), base)
    ELSE DigitsValue(SubSeq(s, 1, Len(s) - 1), base) * base + HexVal(s[Len(s)])

Unsigned(s) == IF s # << >> /\ s[1] \in {"+", "-"} THEN Tail1(s) ELSE s

Signed(s, v) == IF s # << >> /\ s[1] = "-" THEN 0 - v ELSE v

\* int(s): [ok, val]
IntDec(s) ==
    IF DigitString(Unsigned(s), Digits, FALSE)
    THEN [ok |-> TRUE, val |-> Signed(s, DigitsValue(Unsigned(s), 10))]
    ELSE [ok |-> FALSE, val |-> 0]

\* int(s, 0) for decimal and 0x literals: [ok, val]
IntBase0(s) ==
    LET u == Unsigned(s)
    IN  IF StartsWith(u, <<"0", "x">>) \/ StartsWith(u, <<"0", "X">>)
        THEN IF DigitString(SubSeq(u, 3, Len(u)), HexDigits, TRUE)
             THEN [ok |-> TRUE,
                   val |-> Signed(s, DigitsValue(SubSeq(u, 3, Len(u)), 16))]
             ELSE [ok |-> FALSE, val |-> 0]
        ELSE IF /\ DigitString(u, Digits, FALSE)
                /\ (u[1] # "0" \/ \A i \in DOMAIN u : u[i] \in {"0", "_"})
             THEN [ok |-> TRUE, val |-> Signed(s, DigitsValue(u, 10))]
             ELSE [ok |-> FALSE, val |-> 0]

\* ----------------------------------------------------------------- tables
MemSize == 65536

reg_pos == <<9, 6, 0>>

flags == [c \in {"n", "z", "p"} |->
             IF c = "n" THEN 2048 ELSE IF c = "z" THEN 1024 ELSE 512]

BR == <<"B", "R">>

ADD == <<"A", "D", "D">>

AND == <<"A", "N", "D">>

JMPT == <<"J", "M", "P", "T">>

HALT == <<"H", "A", "L", "T">>

\* name, instruction_info[name], immediate[name]
InstrTable ==
    << <<ADD, 4096, 5>>,
       <<AND, 20480, 5>>,
       <<BR, 0, 9>>,
       << <<"G", "E", "T", "C">>, 61472, 0>>,
       <<HALT, 61477, 0>>,
       << <<"I", "N">>, 61475, 0>>,
       << <<"J", "M", "P">>, 49152, 0>>,
       <<JMPT, 49153, 0>>,
       << <<"J", "S", "R">>, 18432, 11>>,
       << <<"J", "S", "R", "R">>, 8192, 0>>,
       << <<"L", "D">>, 8192, 9>>,
       << <<"L", "D", "I">>, 40960, 9>>,
       << <<"L", "D", "R">>, 24576, 6>>,
       << <<"L", "E", "A">>, 57344, 9>>,
       << <<"N", "O", "T">>, 36927, 9>>,
       << <<"O", "U", "T">>, 61473, 0>>,
       << <<"P", "U", "T", "S">>, 61474, 0>>,
       << <<"P", "U", "T", "S", "P">>, 61476, 0>>,
       << <<"R", "E", "T">>, 49600, 0>>,
       << <<"R", "T", "I">>, 32768, 0>>,
       << <<"R", "T", "T">>, 49601, 0>>,
       << <<"S", "T">>, 12288, 9>>,
       << <<"S", "T", "I">>, 45056, 9>>,
       << <<"S", "T", "R">>, 28672, 6>>,
       << <<"T", "R", "A", "P">>, 61440, 8>> >>

instructions == {InstrTable[i][1] : i \in DOMAIN InstrTable}

InstrRow(name) == InstrTable[CHOOSE i \in DOMAIN InstrTable : InstrTable[i][1] = name]

instruction_info(name) == InstrRow(name)[2]

immediate(name) == InstrRow(name)[3]

immediate_mask(name) == Pow2(immediate(name)) - 1

IsReg(w) == Len(w) = 2 /\ w[1] = "R" /\ w[2] \in {"0", "1", "2", "3", "4", "5", "6", "7"}

regs(w) == HexVal(w[2])

\* ------------------------------------------------------------- the memory
\* memory[i] of the array: an index in -MemSize .. MemSize - 1 is a word
ValidIndex(i) == 0 - MemSize <= i /\ i < MemSize

Idx(i) == IF i < 0 THEN i + MemSize ELSE i

Mem(m, i) == IF Idx(i) \in DOMAIN m THEN m[Idx(i)] ELSE 0

MemSet(m, i, v) ==
    IF v = 0
    THEN [a \in DOMAIN m \ {Idx(i)} |-> m[a]]
    ELSE [a \in DOMAIN m \cup {Idx(i)} |-> IF a = Idx(i) THEN v ELSE m[a]]

\* ---------------------------------------------------- results of a step
Ok(s) == [s |-> s, exc |-> "none", prompt |-> FALSE]

Raise(s, e) == [s |-> s, exc |-> e, prompt |-> FALSE]

Prompt(s) == [s |-> s, exc |-> "none", prompt |-> TRUE]

\* put_and_show(n) in state s
put_and_show(s, n) ==
    IF ~ValidIndex(s.pc) THEN Raise(s, "IndexError")
    ELSE IF n < 0 - MemSize \/ n >= MemSize THEN Raise(s, "OverflowError")
    ELSE Ok([s EXCEPT !.memory = MemSet(s.memory, s.pc, IF n < 0 THEN MemSize + n ELSE n)])

\* pc += 1 after a write w that did not raise
Advance(w) == IF w.exc # "none" THEN w ELSE Ok([w.s EXCEPT !.pc = w.s.pc + 1])

\* valid_label(word) raises IndexError on word[0] or word[1]
valid_label_raises(word) == word = << >> \/ (word[1] = "x" /\ Len(word) = 1)

valid_label(word) ==
    /\ ~(word[1] = "x" /\ IsDigit(word[2]))
    /\ IsAlpha(word[1])
    /\ \A i \in DOMAIN word : IsAlpha(word[i]) \/ IsDigit(word[i]) \/ word[i] = "_"

XChars == {"-", "g"} \cup HexDigits

\* int(...) & mask; raises tells whether a ValueError of int() leaves
\* get_immediate or is caught and answered by None
Masked(p, mask, raises) ==
    IF p.ok THEN [exc |-> FALSE, none |-> FALSE, val |-> BitAndMask(p.val, mask)]
    ELSE [exc |-> raises, none |-> ~raises, val |-> 0]

\* get_immediate(word, mask): [exc, none, val]
get_immediate(word, mask) ==
    IF /\ StartsWith(word, <<"x">>)
       /\ \A i \in 2 .. Len(word) : word[i] \in XChars
       /\ \A i \in 3 .. Len(word) : word[i] # "-"
    THEN Masked(IntBase0(<<"0">> \o word), mask, TRUE)
    ELSE IF StartsWith(word, <<"#">>)
    THEN Masked(IntDec(Tail1(word)), mask, TRUE)
    ELSE Masked(IntDec(word), mask, FALSE)

\* label_location[word].append(rec), creating the list when absent
AddFixup(ll, word, rec) ==
    [l \in DOMAIN ll \cup {word} |->
        IF l = word
        THEN (IF word \in DOMAIN ll THEN Append(ll[word], rec) ELSE <<rec>>)
        ELSE ll[l]]

\* labels[word] = addr
SetLabel(lb, word, addr) ==
    [l \in DOMAIN lb \cup {word} |-> IF l = word THEN addr ELSE lb[l]]

IndexOf(words, w) == CHOOSE i \in DOMAIN words : words[i] = w /\ \A j \in 1 .. i - 1 : words[j] # w

Has(words, w) == \E i \in DOMAIN words : words[i] = w

\* ------------------------------------------------------------ directives
FILL == <<".", "F", "I", "L", "L">>

ORIG == <<".", "O", "R", "I", "G">>

STRINGZ == <<".", "S", "T", "R", "I", "N", "G", "Z">>

BLKW == <<".", "B", "L", "K", "W">>

END == <<".", "E", "N", "D">>

FullMask == 65535

\* lines 153-160: the operand of .FILL that int() refused; g = get_immediate(word)
FillImmediate(s, word, g) ==
    IF g.exc THEN Raise(s, "ValueError")
    ELSE IF g.none
    THEN Ok([s EXCEPT !.label_location =
                AddFixup(s.label_location, word, <<s.pc, FullMask, 16>>)])
    ELSE IF ~ValidIndex(s.pc) THEN Raise(s, "IndexError")
    ELSE Ok([s EXCEPT !.memory = MemSet(s.memory, s.pc, g.val)])

\* lines 150-160
FillWord(s, word) ==
    IF IntDec(word).ok THEN put_and_show(s, IntDec(word).val)
    ELSE FillImmediate(s, word, get_immediate(word, FullMask))

\* lines 162-165 after the operand r
FillDone(words, r) ==
    IF r.exc # "none" THEN r
    ELSE Ok([r.s EXCEPT
               !.labels = IF words[1] # FILL
                          THEN SetLabel(r.s.labels, words[1], r.s.pc)
                          ELSE r.s.labels,
               !.pc = r.s.pc + 1])

\* the .FILL branch
ProcessFill(s, words) ==
    IF IndexOf(words, FILL) = Len(words) THEN Raise(s, "IndexError")
    ELSE FillDone(words, FillWord(s, words[IndexOf(words, FILL) + 1]))

\* orig = pc = int(...): p is the parse
OrigSet(s, p) ==
    IF p.ok THEN Ok([s EXCEPT !.orig = p.val, !.pc = p.val])
    ELSE Raise(s, "ValueError")

\* the .ORIG branch
ProcessOrig(s, words) ==
    IF Len(words) < 2 THEN Raise(s, "IndexError")
    ELSE OrigSet(s, IntBase0(IF StartsWith(words[2], <<"x">>)
                             THEN <<"0">> \o words[2] ELSE words[2]))

EndsWith(w, c) == w # << >> /\ w[Len(w)] = c

\* the rejoin of the pieces of line.split('"') after the first quote
RECURSIVE Rejoin(_, _)
Rejoin(string, rest) ==
    IF rest = << >> THEN string
    ELSE Rejoin(IF EndsWith(string, "\\")
                THEN string \o <<"\"">> \o Head(rest) ELSE string,
                Tail(rest))

\* m of lines 193-200
CharCode(c, backslash) ==
    IF backslash /\ c \in {"n", "b", "l", "r"} THEN Ord(c) - 100 ELSE Ord(c)

\* the character loop of .STRINGZ: r is the result so far
RECURSIVE StringLoop(_, _, _)
StringLoop(r, string, backslash) ==
    IF r.exc # "none" \/ string = << >> THEN r
    ELSE IF ~backslash /\ Head(string) = "\\"
    THEN StringLoop(r, Tail(string), TRUE)
    ELSE StringLoop(Advance(put_and_show(r.s, CharCode(Head(string), backslash))),
                    Tail(string), FALSE)

\* lines 208-209
StringzEnd(r) == IF r.exc # "none" THEN r ELSE Advance(put_and_show(r.s, 0))

\* lines 178-209; quoted is the tail of line.split('"')
StringzText(s1, quoted) ==
    IF quoted = << >> THEN Raise(s1, "IndexError")
    ELSE StringzEnd(StringLoop(Ok(s1), Rejoin(Head(quoted), Tail(quoted)), FALSE))

\* lines 174-177, and lines 238-241 of an instruction line
LabelState(s, words) ==
    IF valid_label(words[1])
    THEN [s EXCEPT !.labels = SetLabel(s.labels, words[1], s.pc)]
    ELSE s

\* the .STRINGZ branch
ProcessStringz(s, words, quoted) ==
    IF valid_label_raises(words[1]) THEN Raise(s, "IndexError")
    ELSE StringzText(LabelState(s, words), quoted)

\* lines 214-217; g = get_immediate(words[-1])
BlkwAdvance(s1, g) ==
    IF g.exc \/ g.none \/ g.val <= 0 THEN Raise(s1, "ValueError")
    ELSE Ok([s1 EXCEPT !.pc = s1.pc + g.val])

\* the .BLKW branch
ProcessBlkw(s, words) ==
    BlkwAdvance([s EXCEPT !.labels = SetLabel(s.labels, words[1], s.pc)],
                get_immediate(words[Len(words)], FullMask))

\* ---------------------------------------------------------- instructions
\* index (from 1) of the token the branch normalisation looks at, 0 if none
BranchIndex(words) ==
    IF StartsWith(words[1], BR) THEN 1
    ELSE IF Len(words) >= 2 /\ StartsWith(words[2], BR) THEN 2
    ELSE 0

FlagLetters(w) == {ToLower(w[i]) : i \in 3 .. Len(w)}

\* TRUE when the token at BranchIndex is rewritten to BR and fl is assigned
Normalised(words) ==
    /\ BranchIndex(words) > 0
    /\ Len(words[BranchIndex(words)]) <= 5
    /\ FlagLetters(words[BranchIndex(words)]) \subseteq DOMAIN flags

RECURSIVE FlagSum(_)
FlagSum(cs) ==
    IF cs = {} THEN 0
    ELSE flags[CHOOSE x \in cs : TRUE] + FlagSum(cs \ {CHOOSE x \in cs : TRUE})

\* fl after the normalisation; BR alone is read as BRnzp
BranchFlags(words) ==
    IF words[BranchIndex(words)] = BR THEN FlagSum(DOMAIN flags)
    ELSE FlagSum(FlagLetters(words[BranchIndex(words)]))

NormaliseBranch(words) ==
    IF Normalised(words) THEN [words EXCEPT ![BranchIndex(words)] = BR] ELSE words

RECURSIVE RStripComma(_)
RStripComma(w) ==
    IF EndsWith(w, ",") THEN RStripComma(SubSeq(w, 1, Len(w) - 1)) ELSE w

\* lines 275-278; a = [instruction, r, rc, ll, exc, stop]
OperandReg(a, word) ==
    IF a.rc > 2 THEN [a EXCEPT !.exc = "IndexError"]
    ELSE [a EXCEPT !.r = BitOr(a.r, regs(word) * Pow2(reg_pos[a.rc + 1])),
                   !.rc = a.rc + 1]

\* lines 280-293; g = get_immediate(word, immediate_mask[found])
OperandOther(a, word, found, pc, g) ==
    IF g.exc THEN [a EXCEPT !.exc = "ValueError"]
    ELSE IF ~g.none
    THEN [a EXCEPT !.instruction =
              IF found \in {ADD, AND}
              THEN BitOr(BitOr(a.instruction, g.val), 32)
              ELSE BitOr(a.instruction, g.val)]
    ELSE IF word = found THEN a
    ELSE IF valid_label_raises(word) THEN [a EXCEPT !.exc = "IndexError"]
    ELSE IF valid_label(word)
    THEN [a EXCEPT !.ll = AddFixup(a.ll, word,
                            <<pc, immediate_mask(found), immediate(found)>>)]
    ELSE [a EXCEPT !.exc = "ValueError"]

\* lines 295-297
OperandDone(b, found) ==
    IF b.exc # "none" THEN b
    ELSE [b EXCEPT !.instruction = BitOr(b.instruction, b.r),
                   !.stop = (found = JMPT)]

OperandWord(a, word, found, pc) ==
    IF IsReg(word) THEN OperandReg(a, word)
    ELSE OperandOther(a, word, found, pc, get_immediate(word, immediate_mask(found)))

\* one turn of the operand loop
OperandStep(a, token, found, pc) ==
    OperandDone(OperandWord(a, RStripComma(token), found, pc), found)

RECURSIVE OperandLoop(_, _, _, _)
OperandLoop(a, tokens, found, pc) ==
    IF tokens = << >> \/ a.exc # "none" \/ a.stop THEN a
    ELSE OperandLoop(OperandStep(a, Head(tokens), found, pc), Tail(tokens), found, pc)

\* lines 299-300 after the operand loop a
WriteInstruction(s, a) ==
    IF a.exc # "none" THEN Raise([s EXCEPT !.label_location = a.ll], a.exc)
    ELSE Advance(put_and_show([s EXCEPT !.label_location = a.ll], a.instruction))

\* lines 263-300: the encoding of the instruction found
EncodeFound(s, words, found, flSet, fl) ==
    IF found = BR /\ ~flSet THEN Raise(s, "UnboundLocalError")
    ELSE WriteInstruction(s,
             OperandLoop([instruction |-> IF found = BR
                                          THEN BitOr(instruction_info(found), fl)
                                          ELSE instruction_info(found),
                          r |-> 0,
                          rc |-> IF found = JMPT THEN 1 ELSE 0,
                          ll |-> s.label_location,
                          exc |-> "none",
                          stop |-> FALSE],
                         Tail(words), found, s.pc))

\* lines 247-261: no instruction on the line
NotFound(s, words) ==
    IF Len(words) > 1 THEN Prompt(s)
    ELSE IF valid_label_raises(words[1]) THEN Raise(s, "IndexError")
    ELSE IF valid_label(words[1])
    THEN Ok([s EXCEPT !.label_location =
                 AddFixup(s.label_location, words[1], <<s.pc, FullMask, 16>>)])
    ELSE Raise(s, "ValueError")

\* lines 243-300, the label of the line being set in s1
AfterLabel(s1, words, flSet, fl) ==
    IF Len(words) < 2 THEN Ok(s1)
    ELSE IF words[2] \notin instructions THEN NotFound(s1, words)
    ELSE EncodeFound(s1, words, words[2], flSet, fl)

\* lines 235-300 on the words after the branch normalisation
ProcessWords(s, words, flSet, fl) ==
    IF words[1] \in instructions THEN EncodeFound(s, words, words[1], flSet, fl)
    ELSE IF valid_label_raises(words[1]) THEN Raise(s, "IndexError")
    ELSE AfterLabel(LabelState(s, words), words, flSet, fl)

\* lines 220-300: a line that is no directive
ProcessLine(s, words) ==
    ProcessWords(s, NormaliseBranch(words), Normalised(words),
                 IF Normalised(words) THEN BranchFlags(words) ELSE 0)

\* process_instruction(words)
process_instruction(s, line) ==
    IF line.words = << >> \/ StartsWith(line.words[1], <<";">>) THEN Ok(s)
    ELSE IF Has(line.words, FILL) THEN ProcessFill(s, line.words)
    ELSE IF Has(line.words, ORIG) THEN ProcessOrig(s, line.words)
    ELSE IF Has(line.words, STRINGZ) THEN ProcessStringz(s, line.words, line.quoted)
    ELSE IF Has(line.words, BLKW) THEN ProcessBlkw(s, line.words)
    ELSE ProcessLine(s, line.words)

\* ------------------------------------------------------------ resolution
\* the bound taken from bits instead of bits - 1
in_range_wide(n, bits) == 0 - Pow2(bits) <= n /\ n < Pow2(bits)

in_range(n, bits) == 0 - Pow2(bits - 1) <= n /\ n < Pow2(bits - 1)

\* the patch assigned to the word instead of or-ed into it
ResolveOne_Assign(m, target, rec) ==
    LET ref == rec[1]
        mask == rec[2]
        bits == rec[3]
        current == target - ref - 1
    IN  IF ~ValidIndex(ref) THEN [m |-> m, exc |-> "IndexError"]
        ELSE IF Mem(m, ref) = 0
        THEN IF target < 0 \/ target >= MemSize
             THEN [m |-> m, exc |-> "OverflowError"]
             ELSE [m |-> MemSet(m, ref, target), exc |-> "none"]
        ELSE IF ~in_range(current, bits) THEN [m |-> m, exc |-> "ValueError"]
        ELSE [m |-> MemSet(m, ref, BitAndMask(current, mask)), exc |-> "none"]

\* lines 373-387 for one record <<ref, mask, bits>> of a label at target
ResolveOne(m, target, rec) ==
    LET ref == rec[1]
        mask == rec[2]
        bits == rec[3]
        current == target - ref - 1
    IN  IF ~ValidIndex(ref) THEN [m |-> m, exc |-> "IndexError"]
        ELSE IF Mem(m, ref) = 0
        THEN IF target < 0 \/ target >= MemSize
             THEN [m |-> m, exc |-> "OverflowError"]
             ELSE [m |-> MemSet(m, ref, target), exc |-> "none"]
        ELSE IF ~in_range(current, bits) THEN [m |-> m, exc |-> "ValueError"]
        ELSE [m |-> MemSet(m, ref, BitOr(Mem(m, ref), BitAndMask(current, mask))),
              exc |-> "none"]

\* -------------------------------------------------------------- emission
\* array.byteswap() of one word
SwapWord(w) == (w % 256) * 256 + (w \div 256)

byteswap(m) == [a \in DOMAIN m |-> SwapWord(m[a])]

\* ----------------------------------------------------------------- state
VARIABLES code, ln, pc, orig, memory, labels, label_location,
          phase, pending, cur, k, badlabels, prompts, exc, files

vars == <<code, ln, pc, orig, memory, labels, label_location,
          phase, pending, cur, k, badlabels, prompts, exc, files>>

NoLabel == << >>

Empty == [x \in {} |-> 0]

AsmState == [pc |-> pc, orig |-> orig, memory |-> memory, labels |-> labels,
             label_location |-> label_location]

\* all programs of at most n lines drawn from lines
Programs(lines, n) == UNION {[1 .. j -> lines] : j \in 0 .. n}

\* the state after the leading .ORIG line of a program, whose address is
\* one of origins; code holds the lines that follow it
InitWith(origins, programs) ==
    /\ code \in programs
    /\ ln = 1
    /\ pc \in origins
    /\ orig = pc
    /\ memory = Empty
    /\ labels = Empty
    /\ label_location = Empty
    /\ phase = "encode"
    /\ pending = {}
    /\ cur = NoLabel
    /\ k = 0
    /\ badlabels = {}
    /\ prompts = 0
    /\ exc = "none"
    /\ files = {}

\* the globals after process_instruction returned r or raised
EncodeEffect(r) ==
    /\ pc' = r.s.pc
    /\ orig' = r.s.orig
    /\ memory' = r.s.memory
    /\ labels' = r.s.labels
    /\ label_location' = r.s.label_location
    /\ exc' = r.exc
    /\ phase' = IF r.exc = "none" THEN "encode" ELSE "fail"
    /\ prompts' = IF r.prompt THEN prompts + 1 ELSE prompts

\* one turn of the loop over the source lines (lines 352-362)
EncodeLine ==
    /\ phase = "encode"
    /\ ln <= Len(code)
    /\ ~Has(code[ln].words, END)
    /\ EncodeEffect(process_instruction(AsmState, code[ln]))
    /\ ln' = ln + 1
    /\ UNCHANGED <<code, pending, cur, k, badlabels, files>>

\* the loop ends at .END or after the last line; resolution starts
EndEncoding ==
    /\ phase = "encode"
    /\ IF ln > Len(code) THEN TRUE ELSE Has(code[ln].words, END)
    /\ phase' = "resolve"
    /\ pending' = DOMAIN label_location
    /\ UNCHANGED <<code, ln, pc, orig, memory, labels, label_location,
                   cur, k, badlabels, prompts, exc, files>>

\* the outer loop of lines 368-372 takes the next label, in the order of
\* the dictionary, which no line of the program fixes
ResolveLabel ==
    /\ phase = "resolve"
    /\ cur = NoLabel
    /\ \E label \in pending :
          /\ pending' = pending \ {label}
          /\ IF label \notin DOMAIN labels
             THEN /\ badlabels' = badlabels \cup {label}
                  /\ UNCHANGED <<cur, k>>
             ELSE /\ cur' = label
                  /\ k' = 1
                  /\ UNCHANGED badlabels
    /\ UNCHANGED <<code, ln, pc, orig, memory, labels, label_location,
                   phase, prompts, exc, files>>

\* the loop state after one record was resolved with result r
ResolveEffect(r) ==
    /\ memory' = r.m
    /\ exc' = r.exc
    /\ phase' = IF r.exc = "none" THEN "resolve" ELSE "fail"
    /\ IF r.exc = "none" /\ k = Len(label_location[cur])
       THEN cur' = NoLabel /\ k' = 0
       ELSE cur' = cur /\ k' = IF r.exc = "none" THEN k + 1 ELSE k

\* one turn of the inner loop of lines 373-387
ResolveFixup ==
    /\ phase = "resolve"
    /\ cur # NoLabel
    /\ ResolveEffect(ResolveOne(memory, labels[cur], label_location[cur][k]))
    /\ UNCHANGED <<code, ln, pc, orig, labels, label_location,
                   pending, badlabels, prompts, files>>

\* lines 392-410: the symbol file and the cross reference
EmitSym ==
    /\ phase = "resolve"
    /\ cur = NoLabel
    /\ pending = {}
    /\ files' = files \cup {"sym"}
    /\ phase' = "bin"
    /\ UNCHANGED <<code, ln, pc, orig, memory, labels, label_location,
                   pending, cur, k, badlabels, prompts, exc>>

\* lines 413-419: the file is opened, then every word of orig .. pc-1 is read
EmitBin ==
    /\ phase = "bin"
    /\ files' = files \cup {"bin"}
    /\ IF orig < pc /\ (~ValidIndex(orig) \/ ~ValidIndex(pc - 1))
       THEN exc' = "IndexError" /\ phase' = "fail"
       ELSE exc' = exc /\ phase' = "obj"
    /\ UNCHANGED <<code, ln, pc, orig, memory, labels, label_location,
                   pending, cur, k, badlabels, prompts>>

\* the object file written without the second byteswap
EmitObj_NoRestore ==
    /\ phase = "obj"
    /\ files' = files \cup {"obj"}
    /\ IF ~ValidIndex(pc)
       THEN exc' = "IndexError" /\ phase' = "fail" /\ memory' = memory
       ELSE IF orig < 0 \/ orig >= MemSize
       THEN exc' = "OverflowError" /\ phase' = "fail" /\ memory' = memory
       ELSE /\ exc' = exc
            /\ phase' = "done"
            /\ memory' = byteswap(MemSet(memory, pc, orig))
    /\ UNCHANGED <<code, ln, pc, orig, labels, label_location,
                   pending, cur, k, badlabels, prompts>>

\* lines 422-434: memory[pc] = orig, byteswap, two slices written, byteswap
EmitObj ==
    /\ phase = "obj"
    /\ files' = files \cup {"obj"}
    /\ IF ~ValidIndex(pc)
       THEN exc' = "IndexError" /\ phase' = "fail" /\ memory' = memory
       ELSE IF orig < 0 \/ orig >= MemSize
       THEN exc' = "OverflowError" /\ phase' = "fail" /\ memory' = memory
       ELSE /\ exc' = exc
            /\ phase' = "done"
            /\ memory' = byteswap(byteswap(MemSet(memory, pc, orig)))
    /\ UNCHANGED <<code, ln, pc, orig, labels, label_location,
                   pending, cur, k, badlabels, prompts>>

Next ==
    \/ EncodeLine
    \/ EndEncoding
    \/ ResolveLabel
    \/ ResolveFixup
    \/ EmitSym
    \/ EmitBin
    \/ EmitObj

\* ----------------------------------------------------------- source lines
Line(words) == [words |-> words, quoted |-> << >>]

R1c == <<"R", "1", ",">>

R2c == <<"R", "2", ",">>

R3 == <<"R", "3">>

R5 == <<"R", "5">>

R7c == <<"R", "7", ",">>

R0c == <<"R", "0", ",">>

LabA == <<"A">>

LabB == <<"B">>

LabL == <<"L">>

LabX == <<"x">>

LOOP == <<"L", "O", "O", "P">>

BRAVO == <<"B", "R", "A", "V", "O">>

FOO == <<"F", "O", "O">>

BAR == <<"B", "A", "R">>

NOWHERE == <<"N", "O", "W", "H", "E", "R", "E">>

LD == <<"L", "D">>

LDR == <<"L", "D", "R">>

\* the lines of the programs of Spec
Lines ==
    { Line(<<ADD, R1c, R2c, R3>>),
      Line(<<HALT>>),
      Line(<<LabL, AND, R7c, R0c, R5>>),
      Line(<<LabX, ADD, R1c, R2c, R3>>),
      Line(<<LabL, BLKW, <<"4">>>>),
      Line(<<LabL, BLKW, <<"-", "3">>>>),
      Line(<<LabL, BLKW, <<"0">>>>),
      Line(<<LabL, BLKW>>),
      Line(<<LabL, BLKW, <<"a", "b", "c">>>>),
      Line(<<FILL, LabA>>),
      Line(<<FILL, <<"x", "g">>>>),
      Line(<<LabA, FILL, LabB>>),
      Line(<<LabB, FILL, <<"7">>>>),
      Line(<<<<"B", "R", "z">>, LabA>>),
      Line(<<LOOP, <<"B", "R", "n", "p">>, LOOP>>),
      Line(<<BRAVO, <<"B", "R", "z">>, LabA>>),
      Line(<<LabA, <<"B", "R", "P", "n">>, LabA>>),
      Line(<<BR, LabA>>),
      Line(<<FOO>>),
      Line(<<FOO, BAR>>),
      Line(<<LD, R1c, NOWHERE>>),
      Line(<<LD, R1c, <<"5", "x">>>>),
      Line(<<ORIG, <<"x", "2", "0", "0", "0">>>>),
      Line(<<ORIG, <<"x", "F", "F", "F", "F">>>>),
      [words |-> <<<<"S">>, STRINGZ, <<"\"", "A", "\\", "n", "\"">>>>,
       quoted |-> <<<<"A", "\\", "n">>, << >>>>],
      Line(<<END>>) }

\* the lines of the programs of SpecResolve
ResolveLines ==
    { Line(<<LDR, R1c, R2c, LabA>>),
      Line(<<ADD, R1c, <<"A", ",">>, LabB>>),
      Line(<<LabA, HALT>>),
      Line(<<LabB, BLKW, <<"4", "0">>>>),
      Line(<<FILL, LabA>>),
      Line(<<LabA, FILL, LabB>>),
      Line(<<ORIG, <<"x", "3", "0", "0", "0">>>>) }

MaxResolveLines == 4

\* the address of the leading .ORIG x3000
Origin == 12288

Init == InitWith({Origin}, Programs(Lines, MaxLines))

Spec == Init /\ [][Next]_vars

InitResolve == InitWith({Origin}, Programs(ResolveLines, MaxResolveLines))

SpecResolve == InitResolve /\ [][Next]_vars

\* ------------------------------------------------- vocabulary of the claims
\* a step of the loop over the source lines
EncodeStep == phase = "encode" /\ ln' = ln + 1

\* a step of the inner resolution loop
FixupStep == phase = "resolve" /\ cur # NoLabel

\* a step of the emission
EmitStep == (phase = "resolve" /\ phase' = "bin") \/ phase \in {"bin", "obj"}

CurWords == code[ln].words

CurRecord == label_location[cur][k]

\* BR followed by at most three letters of n, z, p in any case
BranchToken(w) ==
    /\ StartsWith(w, BR)
    /\ Len(w) <= 5
    /\ \A i \in 3 .. Len(w) : w[i] \in {"n", "z", "p", "N", "Z", "P"}

\* a literal of the source language: decimal, #decimal, xHEX or x-HEX
LiteralValue(w) ==
    IF StartsWith(w, <<"#">>) THEN IntDec(Tail1(w))
    ELSE IF StartsWith(w, <<"x", "-">>)
    THEN IntBase0(<<"-", "0", "x">> \o SubSeq(w, 3, Len(w)))
    ELSE IF StartsWith(w, <<"x">>) /\ Len(w) > 1 /\ \A i \in 2 .. Len(w) : w[i] \in HexDigits
    THEN IntBase0(<<"0">> \o w)
    ELSE IntDec(w)

\* a label name: a letter, then letters, digits and underscores; no
\* mnemonic, branch token, register or literal
LabelName(w) ==
    /\ w # << >>
    /\ IsAlpha(w[1])
    /\ \A i \in DOMAIN w : IsAlpha(w[i]) \/ IsDigit(w[i]) \/ w[i] = "_"
    /\ w \notin instructions
    /\ ~BranchToken(w)
    /\ ~IsReg(w)
    /\ ~LiteralValue(w).ok

IsDirectiveLine(words) ==
    \E d \in {FILL, ORIG, STRINGZ, BLKW, END} : Has(words, d)

RegNo(token) == HexVal(RStripComma(token)[2])

\* mnemonic and three registers, at index i of the words
ThreeRegisters(words, i) ==
    /\ Len(words) = i + 3
    /\ words[i] \in {ADD, AND}
    /\ \A j \in i + 1 .. i + 3 : IsReg(RStripComma(words[j]))

ThreeRegisterWord(words, i) ==
    (IF words[i] = ADD THEN 4096 ELSE 20480)
        + RegNo(words[i + 1]) * 512 + RegNo(words[i + 2]) * 64 + RegNo(words[i + 3])

\* the condition bits 11..9 a branch token asks for, as a number 0..7
ConditionBits(w) ==
    IF Len(w) = 2 THEN 7
    ELSE (IF \E i \in 3 .. Len(w) : w[i] \in {"n", "N"} THEN 4 ELSE 0)
       + (IF \E i \in 3 .. Len(w) : w[i] \in {"z", "Z"} THEN 2 ELSE 0)
       + (IF \E i \in 3 .. Len(w) : w[i] \in {"p", "P"} THEN 1 ELSE 0)

\* ------------------------------------------------------------------ C1
\* C1: when the resolver reaches a record <<address, mask, width>> of a
\* defined label whose word is not 0, with offset = labels[label] - address - 1:
\* an offset inside -2^(width-1) .. 2^(width-1) - 1 is or-ed into the word
\* under the mask, any other offset raises the range error and leaves the
\* memory as it was.
C1_RelativePatch ==
    [][(FixupStep /\ ValidIndex(CurRecord[1]) /\ Mem(memory, CurRecord[1]) # 0) =>
         LET address == CurRecord[1]
             mask == CurRecord[2]
             width == CurRecord[3]
             offset == labels[cur] - address - 1
         IN  IF 0 - Pow2(width - 1) <= offset /\ offset < Pow2(width - 1)
             THEN /\ Mem(memory', address) =
                        BitOr(Mem(memory, address), BitAndMask(offset, mask))
                  /\ \A a \in (DOMAIN memory \cup DOMAIN memory') \ {Idx(address)} :
                        Mem(memory', a) = Mem(memory, a)
                  /\ exc' = "none"
                  /\ phase' = "resolve"
             ELSE /\ exc' = "ValueError"
                  /\ phase' = "fail"
                  /\ memory' = memory]_vars

\* a range error was raised on one label after a backward reference to
\* another label was patched with its negative offset
C1_Witness ==
    /\ phase = "fail"
    /\ exc = "ValueError"
    /\ cur # NoLabel
    /\ \E l \in (DOMAIN label_location \cap DOMAIN labels) \ (pending \cup {cur}) :
          \E i \in DOMAIN label_location[l] :
             LET rec == label_location[l][i]
                 offset == labels[l] - rec[1] - 1
             IN  /\ offset < 0
                 /\ 0 - Pow2(rec[3] - 1) <= offset
                 /\ Mem(memory, rec[1]) % (rec[2] + 1) = offset % (rec[2] + 1)

\* ------------------------------------------------------------------ C2
\* C2: once a fixup of an undefined label was met, a line with an unknown
\* leading token and further tokens was read, or a range, label or .BLKW
\* error was raised, none of the three files is written.
C2_NoArtifactAfterError ==
    (badlabels # {} \/ prompts > 0 \/ exc = "ValueError") => files = {}

\* ------------------------------------------------------------------ C3
\* C3: a .BLKW line whose count is missing, no number, zero or negative
\* raises and leaves the location counter; with a positive count n the
\* location counter grows by n and the memory is left as it was.
C3_BlockCount ==
    [][(EncodeStep /\ Has(CurWords, BLKW)
           /\ ~\E d \in {FILL, ORIG, STRINGZ} : Has(CurWords, d)) =>
         LET count == LiteralValue(CurWords[Len(CurWords)])
         IN  IF count.ok /\ count.val > 0
             THEN pc' = pc + count.val /\ memory' = memory /\ exc' = "none"
             ELSE exc' # "none" /\ pc' = pc]_vars

\* ------------------------------------------------------------------ C4
\* C4: a .FILL line whose operand is a label queues exactly the record
\* <<location, 0xFFFF, 16>> for it and moves the location counter by 1;
\* a record of this shape whose word is 0 when the resolver reaches it has
\* its word replaced by the address of the label.
C4_FillLabel ==
    [][/\ (EncodeStep /\ Has(CurWords, FILL)
              /\ IndexOf(CurWords, FILL) < Len(CurWords)
              /\ LabelName(CurWords[IndexOf(CurWords, FILL) + 1])) =>
            /\ label_location' =
                  AddFixup(label_location, CurWords[IndexOf(CurWords, FILL) + 1],
                           <<pc, 65535, 16>>)
            /\ pc' = pc + 1
       /\ (FixupStep /\ CurRecord[2] = 65535 /\ CurRecord[3] = 16
              /\ ValidIndex(CurRecord[1]) /\ Mem(memory, CurRecord[1]) = 0) =>
            /\ Mem(memory', CurRecord[1]) = labels[cur]
            /\ exc' = "none"]_vars

\* ------------------------------------------------------------------ C5
\* C5: a branch token, first on its line or after a leading label of any
\* name, is encoded as a word with opcode field 0 whose bits 11..9 are the
\* letters of the token, all three for BR alone.
C5_Branch ==
    [][(EncodeStep /\ ~IsDirectiveLine(CurWords)
           /\ \/ (Len(CurWords) = 2 /\ BranchToken(CurWords[1]) /\ LabelName(CurWords[2]))
              \/ (Len(CurWords) = 3 /\ LabelName(CurWords[1])
                    /\ BranchToken(CurWords[2]) /\ LabelName(CurWords[3]))) =>
         /\ exc' = "none"
         /\ pc' = pc + 1
         /\ Mem(memory', pc) \div 512 =
               ConditionBits(CurWords[Len(CurWords) - 1])]_vars

\* ------------------------------------------------------------------ C6
\* C6: an ADD or AND line with three registers, with or without a leading
\* label, writes base | d << 9 | s1 << 6 | s2 at the location counter,
\* queues no fixup and moves the location counter by 1.
C6_ThreeRegisters ==
    [][(EncodeStep
           /\ \/ ThreeRegisters(CurWords, 1)
              \/ (LabelName(CurWords[1]) /\ ThreeRegisters(CurWords, 2))) =>
         /\ exc' = "none"
         /\ Mem(memory', pc) = ThreeRegisterWord(CurWords, Len(CurWords) - 3)
         /\ label_location' = label_location
         /\ pc' = pc + 1]_vars

\* ------------------------------------------------------------------ C7
\* C7: a line that is a single label name queues the record
\* <<location, 0xFFFF, 16>> for that name.
C7_LoneLabel ==
    [][(EncodeStep /\ Len(CurWords) = 1 /\ LabelName(CurWords[1])) =>
         label_location' =
            AddFixup(label_location, CurWords[1], <<pc, 65535, 16>>)]_vars

C9_LocationCounter ==
    [][/\ 0 <= pc' /\ pc' <= 65535
       /\ EncodeStep => pc' >= pc]_vars

\* ----------------------------------------------------------------- C10
\* the state at the end of the encoding of a program that follows the
\* leading .ORIG, [s, exc, prompt]
RECURSIVE EncodeAll(_, _)
EncodeAll(r, ls) ==
    IF ls = << >> \/ r.exc # "none" THEN r
    ELSE IF Has(Head(ls).words, END) THEN r
    ELSE EncodeAll(process_instruction(r.s, Head(ls)), Tail(ls))

Encoded ==
    EncodeAll(Ok([pc |-> Origin, orig |-> Origin, memory |-> Empty,
                  labels |-> Empty, label_location |-> Empty]), code).s

\* the records of one label resolved in their order; c = [m, bad, exc]
RECURSIVE ResolveRecords(_, _, _)
ResolveRecords(c, target, recs) ==
    IF recs = << >> \/ c.exc # "none" THEN c
    ELSE ResolveRecords([c EXCEPT !.m = ResolveOne(c.m, target, Head(recs)).m,
                                  !.exc = ResolveOne(c.m, target, Head(recs)).exc],
                        target, Tail(recs))

\* the labels of todo resolved one after the other in one fixed order
RECURSIVE ResolveInOrder(_, _, _)
ResolveInOrder(c, e, todo) ==
    IF todo = {} \/ c.exc # "none" THEN c
    ELSE LET label == CHOOSE l \in todo : TRUE
         IN  ResolveInOrder(
                 IF label \notin DOMAIN e.labels
                 THEN [c EXCEPT !.bad = c.bad \cup {label}]
                 ELSE ResolveRecords(c, e.labels[label], e.label_location[label]),
                 e, todo \ {label})

Reference ==
    ResolveInOrder([m |-> Encoded.memory, bad |-> {}, exc |-> "none"],
                   Encoded, DOMAIN Encoded.label_location)

\* the resolution has ended, by its last record or by an exception
ResolutionOver ==
    \/ phase = "resolve" /\ cur = NoLabel /\ pending = {}
    \/ phase = "fail" /\ cur # NoLabel

\* two records of defined labels lie on one word that is 0 after encoding
SharedZeroWord(e) ==
    \E l1, l2 \in DOMAIN e.label_location \cap DOMAIN e.labels :
       \E i \in DOMAIN e.label_location[l1], j \in DOMAIN e.label_location[l2] :
          /\ <<l1, i>> # <<l2, j>>
          /\ ValidIndex(e.label_location[l1][i][1])
          /\ ValidIndex(e.label_location[l2][j][1])
          /\ Idx(e.label_location[l1][i][1]) = Idx(e.label_location[l2][j][1])
          /\ Mem(e.memory, e.label_location[l1][i][1]) = 0

\* C10 as stated: whatever the order the labels are taken in, the
\* resolution ends with the memory, the reports of undefined labels and the
\* exception of one fixed order.
C10_AnyOrder ==
    ResolutionOver =>
        /\ memory = Reference.m
        /\ badlabels = Reference.bad
        /\ exc = Reference.exc

\* C10 as amended: when the resolution runs to its end without an
\* exception and no word that is 0 after encoding carries two records,
\* the memory and the reports of undefined labels are those of any other
\* order, which runs to its end as well.
C10_AnyOrderWhenComplete ==
    (phase = "resolve" /\ cur = NoLabel /\ pending = {} /\ ~SharedZeroWord(Encoded)) =>
        /\ memory = Reference.m
        /\ badlabels = Reference.bad
        /\ Reference.exc = "none"

\* the resolution ran to its end over the records of two defined labels
\* and patched the memory
C10_Witness ==
    /\ phase = "resolve"
    /\ cur = NoLabel
    /\ pending = {}
    /\ Cardinality(DOMAIN label_location \cap DOMAIN labels) >= 2
    /\ ~SharedZeroWord(Encoded)
    /\ memory # Encoded.memory
====
